---- MODULE Spec2Model ----
(***************************************************************************)
(* State-machine model of src/main.py of AI-Deployment-Intel: the query    *)
(* selector (select_queries), the pipeline orchestrator (run_pipeline),    *)
(* the two store wrappers (store_deployment, get_deployments) over the     *)
(* "deployments" table, and the publisher (publish_site with               *)
(* generate_site).  The search provider, the content fetcher, the          *)
(* evaluator, the table and git are collaborators: every outcome they can  *)
(* hand back to the code is a nondeterministic input of the action that    *)
(* calls them.                                                             *)
(***************************************************************************)
EXTENDS Integers, Sequences, FiniteSets, TLC

VARIABLES
    bank,               \* SEARCH_QUERY_BANK, the module-level list
    store,              \* rows of the "deployments" table
    clock,              \* the table's time: stamps created_at
    runs,               \* run_pipeline invocations so far
    work,               \* search hits handed to run_pipeline so far
    direct,             \* store_deployment invocations so far
    pc,                 \* position inside run_pipeline
    exc,                \* exception that escaped run_pipeline, or "none"
    num_queries,        \* run_pipeline's arguments
    results_per_query,
    min_quality,
    queries,            \* select_queries' result
    qi,                 \* index of the `for query in queries` loop
    search_results,     \* urls of the hits of the current query
    hi,                 \* index of the `for item in search_results` loop
    url,                \* locals of the loop body
    content,            \* len(content)
    is_story,
    quality,
    stats,              \* the report
    calls,              \* per run: calls made to the collaborators, by outcome
    result,             \* what store_deployment / get_deployments returned
    site,               \* docs/index.html on main of the remote repository
    publishes,          \* publish_site invocations so far
    ppc,                \* position inside publish_site
    pexc,               \* exception that escaped publish_site, or "none"
    html,               \* site_result: the page and deployment_count
    head,               \* docs/index.html of the clone's HEAD
    tree,               \* docs/index.html of the clone's working tree
    git,                \* per invocation: git commands run, by outcome
    published           \* what publish_site returned

(* the state of publish_site and of the repository it pushes to *)
pubvars == <<site, publishes, ppc, pexc, html, head, tree, git, published>>

vars == <<bank, store, clock, runs, work, direct, pc, exc, num_queries,
          results_per_query, min_quality, queries, qi, search_results, hi,
          url, content, is_story, quality, stats, calls, result, pubvars>>

----------------------------------------------------------------------------
(* Bounds of the model.                                                    *)

MaxBank == 5           \* largest bank select_queries is tried on alone
MaxRuns == 2           \* run_pipeline invocations
MaxWork == 2           \* search hits over all runs
MaxDirect == 1         \* store_deployment invocations
MaxPublish == 2        \* publish_site invocations

(* Program constants.                                                      *)

MinContentLength == 300
SnippetCap == 2000

Urls == {"u1", "u2"}

(* len(content) of a fetched page: just below the threshold, and a regular *)
(* page.                                                                   *)
ContentLengths == {299, 500}

(* A JSON value of an evaluator response, as far as run_pipeline looks at  *)
(* it: the key missing, a boolean, an integer, or a value that is neither  *)
(* (a string, null).                                                       *)
JAbsent == [type |-> "absent", val |-> 0]
JBool(b) == [type |-> "bool", val |-> IF b THEN 1 ELSE 0]
JInt(n) == [type |-> "int", val |-> n]
JOther == [type |-> "str", val |-> 0]

Stories == {JBool(TRUE), JBool(FALSE)}
Scores == {JAbsent, JInt(5), JInt(7), JOther}

(* The bank run_pipeline selects from has two queries; its arguments.      *)
PipelineBank == <<1, 2>>
NumQueriesArgs == -1 .. 3
ResultsPerQueryArgs == {2}
MinQualityArgs == {0, 5}

Min(a, b) == IF a <= b THEN a ELSE b

----------------------------------------------------------------------------
(* select_queries                                                          *)

(* The first n entries of the bank; an entry is named by its position. *)
SEARCH_QUERY_BANK(n) == [i \in 1 .. n |-> i]

RECURSIVE SampleWithReplacement(_, _)
(* random.choices: positions may repeat *)
SampleWithReplacement(positions, k) ==
    IF k = 0 THEN {<<>>}
    ELSE UNION {{<<p>> \o s : s \in SampleWithReplacement(positions, k - 1)} : p \in positions}

RECURSIVE Sample(_, _)
(* random.sample(population, k), 0 <= k <= len(population): k entries at   *)
(* pairwise different positions, in any order.                             *)
Sample(positions, k) ==
    IF k = 0 THEN {<<>>}
    ELSE UNION {{<<p>> \o s : s \in Sample(positions \ {p}, k - 1)} : p \in positions}

SampleRaises(b, k) == Min(k, Len(b)) < 0

select_queries(b, k) ==
    {[i \in 1 .. Min(k, Len(b)) |-> b[s[i]]] : s \in Sample(DOMAIN b, Min(k, Len(b)))}

----------------------------------------------------------------------------
(* The deployments table                                                   *)

(* dict.get(key, default) *)
Get(v, default) == IF v = JAbsent THEN default ELSE v

(* bool(v) of a JSON boolean *)
Truthy(v) == v.val # 0

Truncate(len, cap) == Min(len, cap)

Row(u, story, q, snippet, created, touched) ==
    [url |-> u, is_deployment_story |-> story, quality_score |-> q,
     content_snippet |-> snippet, created_at |-> created, touched_at |-> touched]

(* a plain insert, and a write that replaces the table's contents *)
UpsertAsInsert(rows, u, story, q, snippet, now) ==
    rows \cup {Row(u, story, q, snippet, now, now)}

UpsertReplacingAll(rows, u, story, q, snippet, now) ==
    {Row(u, story, q, snippet, now, now)}

(* upsert(record, on_conflict="url"): the record carries no created_at, so *)
(* an insert takes the table's default (now) and an update on conflict     *)
(* leaves the column as it is.  touched_at is no column: it remembers the  *)
(* time of the last write of the row.                                      *)
Upsert(rows, u, story, q, snippet, now) ==
    IF \E r \in rows : r.url = u
    THEN {IF r.url = u THEN Row(u, story, q, snippet, r.created_at, now) ELSE r : r \in rows}
    ELSE rows \cup {Row(u, story, q, snippet, now, now)}

----------------------------------------------------------------------------
(* The report                                                              *)

NewStats ==
    [queries_executed |-> 0, searched |-> 0, fetched |-> 0, evaluated |-> 0,
     stored |-> 0, errors |-> <<>>, queries_used |-> <<>>]

(* f"Search error for '{query}': {e}", f"Fetch error for {url}: {e}", ...  *)
SearchError(q) == [stage |-> "Search", query |-> q, url |-> ""]
UrlError(stage, u) == [stage |-> stage, query |-> 0, url |-> u]

(* No call made yet. *)
NoCalls ==
    [search |-> 0, search_failed |-> 0, fetch |-> 0, fetch_failed |-> 0,
     short |-> 0, evaluate |-> 0, evaluate_failed |-> 0, rejected |-> 0,
     upsert |-> 0, upsert_failed |-> 0]

(* What a call of store_deployment, get_deployments or select_queries gave *)
(* back, with the arguments of a get_deployments call.                     *)
Returned(op, success, mq, limit, deployments) ==
    [op |-> op, success |-> success, min_quality |-> mq, limit |-> limit,
     deployments |-> deployments]

NoResult == Returned("none", FALSE, 0, 0, <<>>)

(* The page generate_html renders: one card per deployment, in the order   *)
(* given, and the number of stories in the header.  The date in the header *)
(* is left out: the invocations of a behaviour fall on one day.            *)
Page(deployments) ==
    [count |-> Len(deployments),
     cards |-> [i \in DOMAIN deployments |->
                  [url |-> deployments[i].url,
                   quality_score |-> deployments[i].quality_score]]]

(* no docs/index.html *)
NoPage == [count |-> -1, cards |-> <<>>]

(* No git command run yet. *)
NoGit ==
    [clone |-> 0, cloned |-> 0, status |-> 0, changed |-> 0, commit |-> 0,
     committed |-> 0, push |-> 0, pushed |-> 0, returned |-> 0]

(* The dict publish_site returns. *)
PublishSuccess(count, message) ==
    [success |-> TRUE, error |-> "", deployment_count |-> count,
     commit_message |-> message]

PublishFailure(error) ==
    [success |-> FALSE, error |-> error, deployment_count |-> 0,
     commit_message |-> ""]

NoPublishResult == PublishFailure("")

InitPublish ==
    /\ site = NoPage
    /\ publishes = 0
    /\ ppc = "idle"
    /\ pexc = "none"
    /\ html = NoPage
    /\ head = NoPage
    /\ tree = NoPage
    /\ git = NoGit
    /\ published = NoPublishResult

Init ==
    /\ bank = PipelineBank
    /\ store = {}
    /\ clock = 1
    /\ runs = 0
    /\ work = 0
    /\ direct = 0
    /\ pc = "idle"
    /\ exc = "none"
    /\ num_queries = 0
    /\ results_per_query = 0
    /\ min_quality = 0
    /\ queries = <<>>
    /\ qi = 0
    /\ search_results = <<>>
    /\ hi = 0
    /\ url = ""
    /\ content = 0
    /\ is_story = JBool(FALSE)
    /\ quality = JInt(0)
    /\ stats = NewStats
    /\ calls = NoCalls
    /\ result = NoResult
    /\ InitPublish

----------------------------------------------------------------------------
(* run_pipeline                                                            *)

(* no call of run_pipeline is under way; one is *)
Idle == pc \in {"idle", "done", "raised"}

Running == ~Idle

AddError(e) == [stats EXCEPT !.errors = Append(@, e)]

Called(f) == [calls EXCEPT ![f] = @ + 1]

Failed(f, g) == [calls EXCEPT ![f] = @ + 1, ![g] = @ + 1]

(* one per query instead of one per hit *)
CountHitsPerQuery(hits) == 1

(* len(search_results) *)
CountHits(hits) == Len(hits)

(* the threshold a digit short *)
IsTooShortAt30(len) == len < 30

(* len(content) < 300 *)
IsTooShort(len) == len < MinContentLength

(* `is_story and quality >= min_quality` raises TypeError when the left    *)
(* operand is true and quality is no number.                               *)
CompareRaises(story, q) == Truthy(story) /\ q.type # "int"

(* a strict comparison, and an inverted one *)
ShouldStoreStrict(story, q, mq) == Truthy(story) /\ q.val > mq

ShouldStoreInverted(story, q, mq) == Truthy(story) /\ q.val <= mq

ShouldStore(story, q, mq) == Truthy(story) /\ q.val >= mq

(* The call, the fresh report and select_queries(num_queries); the         *)
(* ValueError of random.sample is not caught. *)
RunPipeline(nq, rpq, mq) ==
    /\ Idle
    /\ runs < MaxRuns
    /\ work < MaxWork
    /\ runs' = runs + 1
    /\ num_queries' = nq
    /\ results_per_query' = rpq
    /\ min_quality' = mq
    /\ stats' = NewStats
    /\ calls' = NoCalls
    /\ result' = NoResult
    /\ IF SampleRaises(bank, nq)
       THEN /\ pc' = "raised"
            /\ exc' = "ValueError"
            /\ queries' = <<>>
            /\ qi' = 0
       ELSE /\ queries' \in select_queries(bank, nq)
            /\ qi' = 1
            /\ pc' = "query"
            /\ exc' = "none"
    /\ search_results' = <<>>
    /\ hi' = 0
    /\ url' = ""
    /\ content' = 0
    /\ is_story' = JBool(FALSE)
    /\ quality' = JInt(0)
    /\ UNCHANGED <<pubvars, bank, store, clock, work, direct>>

(* `for query in queries:` and the two lines before the search *)
ForQuery ==
    /\ pc = "query"
    /\ qi <= Len(queries)
    /\ stats' = [stats EXCEPT !.queries_used = Append(@, queries[qi]),
                              !.queries_executed = @ + 1]
    /\ pc' = "search"
    /\ UNCHANGED <<pubvars, bank, store, clock, runs, work, direct, exc, num_queries,
                   results_per_query, min_quality, queries, qi, search_results,
                   hi, url, content, is_story, quality, calls, result>>

(* `return stats` *)
Return ==
    /\ pc = "query"
    /\ qi > Len(queries)
    /\ pc' = "done"
    /\ UNCHANGED <<pubvars, bank, store, clock, runs, work, direct, exc, num_queries,
                   results_per_query, min_quality, queries, qi, search_results,
                   hi, url, content, is_story, quality, stats, calls, result>>

Hits(n) == [1 .. n -> Urls]

SearchOk(hits) ==
    /\ pc = "search"
    /\ work + Len(hits) <= MaxWork
    /\ work' = work + Len(hits)
    /\ search_results' = hits
    /\ stats' = [stats EXCEPT !.searched = @ + CountHits(hits)]
    /\ hi' = 1
    /\ pc' = "hit"
    /\ calls' = Called("search")
    /\ UNCHANGED <<pubvars, bank, store, clock, runs, direct, exc, num_queries,
                   results_per_query, min_quality, queries, qi, url, content,
                   is_story, quality, result>>

SearchFail ==
    /\ pc = "search"
    /\ stats' = AddError(SearchError(queries[qi]))
    /\ qi' = qi + 1
    /\ pc' = "query"
    /\ calls' = Failed("search", "search_failed")
    /\ UNCHANGED <<pubvars, bank, store, clock, runs, work, direct, exc, num_queries,
                   results_per_query, min_quality, queries, search_results, hi,
                   url, content, is_story, quality, result>>

(* a loop that passes over a hit whose url the table already holds *)
ForHitSkippingStored ==
    /\ pc = "hit"
    /\ IF hi <= Len(search_results)
       THEN IF \E r \in store : r.url = search_results[hi]
            THEN hi' = hi + 1 /\ UNCHANGED <<pc, url, qi>>
            ELSE /\ url' = search_results[hi]
                 /\ pc' = "fetch"
                 /\ UNCHANGED <<hi, qi>>
       ELSE /\ qi' = qi + 1
            /\ pc' = "query"
            /\ UNCHANGED <<hi, url>>
    /\ UNCHANGED <<pubvars, bank, store, clock, runs, work, direct, exc, num_queries,
                   results_per_query, min_quality, queries, search_results,
                   content, is_story, quality, stats, calls, result>>

(* `for item in search_results:` and url = item.get("url", "") *)
ForHit ==
    /\ pc = "hit"
    /\ IF hi <= Len(search_results)
       THEN /\ url' = search_results[hi]
            /\ pc' = "fetch"
            /\ UNCHANGED qi
       ELSE /\ qi' = qi + 1
            /\ pc' = "query"
            /\ UNCHANGED url
    /\ UNCHANGED <<pubvars, bank, store, clock, runs, work, direct, exc, num_queries,
                   results_per_query, min_quality, queries, search_results, hi,
                   content, is_story, quality, stats, calls, result>>

(* `continue` of the inner loop *)
Continue == hi' = hi + 1 /\ pc' = "hit"

FetchOk(len) ==
    /\ pc = "fetch"
    /\ content' = len
    /\ stats' = [stats EXCEPT !.fetched = @ + 1]
    /\ calls' = Called("fetch")
    /\ pc' = "length"
    /\ UNCHANGED <<pubvars, bank, store, clock, runs, work, direct, exc, num_queries,
                   results_per_query, min_quality, queries, qi, search_results,
                   hi, url, is_story, quality, result>>

FetchFail ==
    /\ pc = "fetch"
    /\ stats' = AddError(UrlError("Fetch", url))
    /\ calls' = Failed("fetch", "fetch_failed")
    /\ Continue
    /\ UNCHANGED <<pubvars, bank, store, clock, runs, work, direct, exc, num_queries,
                   results_per_query, min_quality, queries, qi, search_results,
                   url, content, is_story, quality, result>>

(* `if len(content) < 300: continue` *)
CheckLength ==
    /\ pc = "length"
    /\ IF IsTooShort(content)
       THEN Continue /\ calls' = Called("short")
       ELSE pc' = "evaluate" /\ UNCHANGED <<hi, calls>>
    /\ UNCHANGED <<pubvars, bank, store, clock, runs, work, direct, exc, num_queries,
                   results_per_query, min_quality, queries, qi, search_results,
                   url, content, is_story, quality, stats, result>>

(* messages.create raises, or json.loads does *)
EvaluateFail ==
    /\ pc = "evaluate"
    /\ stats' = AddError(UrlError("Evaluation", url))
    /\ calls' = Failed("evaluate", "evaluate_failed")
    /\ Continue
    /\ UNCHANGED <<pubvars, bank, store, clock, runs, work, direct, exc, num_queries,
                   results_per_query, min_quality, queries, qi, search_results,
                   url, content, is_story, quality, result>>

(* json.loads returns a list, a string, a number or None: evaluated is     *)
(* incremented, then evaluation.get raises AttributeError inside the try   *)
EvaluateNotObject ==
    /\ pc = "evaluate"
    /\ stats' = [AddError(UrlError("Evaluation", url)) EXCEPT !.evaluated = @ + 1]
    /\ calls' = Failed("evaluate", "evaluate_failed")
    /\ Continue
    /\ UNCHANGED <<pubvars, bank, store, clock, runs, work, direct, exc, num_queries,
                   results_per_query, min_quality, queries, qi, search_results,
                   url, content, is_story, quality, result>>

(* json.loads returns an object *)
EvaluateOk(story, score) ==
    /\ pc = "evaluate"
    /\ stats' = [stats EXCEPT !.evaluated = @ + 1]
    /\ is_story' = Get(story, JBool(FALSE))
    /\ quality' = Get(score, JInt(0))
    /\ calls' = Called("evaluate")
    /\ pc' = "decide"
    /\ UNCHANGED <<pubvars, bank, store, clock, runs, work, direct, exc, num_queries,
                   results_per_query, min_quality, queries, qi, search_results,
                   hi, url, content, result>>

(* `if is_story and quality >= min_quality:`, outside every try *)
Decide ==
    /\ pc = "decide"
    /\ IF CompareRaises(is_story, quality)
       THEN pc' = "raised" /\ exc' = "TypeError" /\ UNCHANGED <<hi, calls>>
       ELSE IF ShouldStore(is_story, quality, min_quality)
            THEN pc' = "store" /\ UNCHANGED <<hi, exc, calls>>
            ELSE Continue /\ calls' = Called("rejected") /\ UNCHANGED exc
    /\ UNCHANGED <<pubvars, bank, store, clock, runs, work, direct, num_queries,
                   results_per_query, min_quality, queries, qi, search_results,
                   url, content, is_story, quality, stats, result>>

StoreOk ==
    /\ pc = "store"
    /\ store' = Upsert(store, url, TRUE, quality.val, Truncate(content, SnippetCap), clock)
    /\ clock' = clock + 1
    /\ stats' = [stats EXCEPT !.stored = @ + 1]
    /\ calls' = Called("upsert")
    /\ Continue
    /\ UNCHANGED <<pubvars, bank, runs, work, direct, exc, num_queries,
                   results_per_query, min_quality, queries, qi, search_results,
                   url, content, is_story, quality, result>>

StoreFail ==
    /\ pc = "store"
    /\ stats' = AddError(UrlError("Storage", url))
    /\ calls' = Failed("upsert", "upsert_failed")
    /\ Continue
    /\ UNCHANGED <<pubvars, bank, store, clock, runs, work, direct, exc, num_queries,
                   results_per_query, min_quality, queries, qi, search_results,
                   url, content, is_story, quality, result>>

----------------------------------------------------------------------------
(* store_deployment and get_deployments                                    *)

DirectUrls == Urls \cup {""}
DirectScores == {0, 7}
DirectSnippets == {2500}

StoreDeployment(u, story, q, snippet, ok) ==
    /\ Idle
    /\ direct < MaxDirect
    /\ direct' = direct + 1
    /\ IF u = ""
       THEN /\ result' = Returned("store", FALSE, 0, 0, <<>>)
            /\ UNCHANGED <<store, clock>>
       ELSE IF ok
            THEN /\ store' = Upsert(store, u, story, q, Truncate(snippet, SnippetCap), clock)
                 /\ clock' = clock + 1
                 /\ result' = Returned("store", TRUE, 0, 0, <<>>)
            ELSE /\ result' = Returned("store", FALSE, 0, 0, <<>>)
                 /\ UNCHANGED <<store, clock>>
    /\ UNCHANGED <<pubvars, bank, runs, work, pc, exc, num_queries, results_per_query,
                   min_quality, queries, qi, search_results, hi, url, content,
                   is_story, quality, stats, calls>>

(* .eq("is_deployment_story", True).gte("quality_score", min_quality) *)
Selected(rows, mq) == {r \in rows : r.is_deployment_story /\ r.quality_score >= mq}

(* ascending instead of descending *)
BeforeAscending(a, b) == a.created_at < b.created_at

(* whether row a comes before row b under .order("created_at", desc=True) *)
Before(a, b) == a.created_at > b.created_at

RECURSIVE Order(_)
Order(rows) ==
    IF rows = {} THEN <<>>
    ELSE LET first == CHOOSE r \in rows : \A x \in rows \ {r} : Before(r, x)
         IN  <<first>> \o Order(rows \ {first})

(* .limit(limit) *)
Limit(seq, n) == SubSeq(seq, 1, Min(n, Len(seq)))

Limits == {1, 2}

GetDeployments(mq, limit, ok) ==
    /\ Idle
    /\ result' = IF ok
                 THEN Returned("get", TRUE, mq, limit, Limit(Order(Selected(store, mq)), limit))
                 ELSE Returned("get", FALSE, mq, limit, <<>>)
    /\ UNCHANGED <<pubvars, bank, store, clock, runs, work, direct, pc, exc, num_queries,
                   results_per_query, min_quality, queries, qi, search_results,
                   hi, url, content, is_story, quality, stats, calls>>

----------------------------------------------------------------------------
(* generate_site and publish_site                                          *)

(* everything but the publisher's state and the table *)
pipevars == <<bank, clock, runs, work, direct, pc, exc, num_queries,
              results_per_query, min_quality, queries, qi, search_results, hi,
              url, content, is_story, quality, stats, calls, result>>

RECURSIVE ByQuality(_)
(* .order("quality_score", desc=True): rows of equal score in any order *)
ByQuality(rows) ==
    IF rows = {} THEN {<<>>}
    ELSE UNION {{<<r>> \o s : s \in ByQuality(rows \ {r})} :
                  r \in {x \in rows : \A y \in rows : x.quality_score >= y.quality_score}}

(* generate_site(min_quality): the pages it can return *)
generate_site(rows, mq) == {Page(d) : d \in ByQuality(Selected(rows, mq))}

(* `return {...}` of publish_site, after the git commands counted in g *)
PublishReturns(res, g) ==
    /\ published' = res
    /\ git' = [g EXCEPT !.returned = @ + 1]
    /\ ppc' = "returned"

(* The call, up to the `with`: the token, then generate_site.local, called *)
(* outside every try.  generate_site has no try either and returns         *)
(* "success": True whenever it returns, so a failure of the table's query  *)
(* (ok false) leaves publish_site as an exception and the test of          *)
(* site_result.get("success") never fails.                                 *)
PublishSite(mq, token, ok) ==
    /\ ppc \in {"idle", "returned", "raised"}
    /\ publishes < MaxPublish
    /\ publishes' = publishes + 1
    /\ head' = NoPage
    /\ tree' = NoPage
    /\ IF ~token
       THEN /\ PublishReturns(PublishFailure("GITHUB_TOKEN not found in secrets"), NoGit)
            /\ pexc' = "none"
            /\ html' = NoPage
       ELSE IF ~ok
            THEN /\ ppc' = "raised"
                 /\ pexc' = "Exception"
                 /\ git' = NoGit
                 /\ published' = NoPublishResult
                 /\ html' = NoPage
            ELSE /\ html' \in generate_site(store, mq)
                 /\ ppc' = "clone"
                 /\ pexc' = "none"
                 /\ git' = NoGit
                 /\ published' = NoPublishResult
    /\ UNCHANGED <<site, store, pipevars>>

(* git clone --depth 1: a non-zero return code is tested *)
GitClone(ok) ==
    /\ ppc = "clone"
    /\ IF ok
       THEN /\ head' = site
            /\ tree' = site
            /\ git' = [git EXCEPT !.clone = @ + 1, !.cloned = @ + 1]
            /\ ppc' = "write"
            /\ UNCHANGED published
       ELSE /\ PublishReturns(PublishFailure("Git clone failed"),
                              [git EXCEPT !.clone = @ + 1])
            /\ UNCHANGED <<head, tree>>
    /\ UNCHANGED <<site, publishes, pexc, html, store, pipevars>>

(* docs_dir.mkdir and index_path.write_text: an OSError is caught by       *)
(* `except Exception`                                                      *)
WriteIndex(ok) ==
    /\ ppc = "write"
    /\ IF ok
       THEN /\ tree' = html
            /\ ppc' = "config"
            /\ UNCHANGED <<git, published>>
       ELSE /\ PublishReturns(PublishFailure("Unexpected error"), git)
            /\ UNCHANGED tree
    /\ UNCHANGED <<site, publishes, pexc, html, head, store, pipevars>>

(* the two `git config` with check=True: CalledProcessError is caught *)
GitConfig(ok) ==
    /\ ppc = "config"
    /\ IF ok
       THEN ppc' = "status" /\ UNCHANGED <<git, published>>
       ELSE PublishReturns(PublishFailure("Git command failed"), git)
    /\ UNCHANGED <<site, publishes, pexc, html, head, tree, store, pipevars>>

(* git status --porcelain, its return code not tested: the output is empty *)
(* when the tree equals HEAD and when the command fails                     *)
GitStatus(ok) ==
    /\ ppc = "status"
    /\ IF ok /\ tree # head
       THEN /\ git' = [git EXCEPT !.status = @ + 1, !.changed = @ + 1]
            /\ ppc' = "add"
            /\ UNCHANGED published
       ELSE PublishReturns(PublishSuccess(html.count, "No changes"),
                           [git EXCEPT !.status = @ + 1])
    /\ UNCHANGED <<site, publishes, pexc, html, head, tree, store, pipevars>>

(* git add with check=True *)
GitAdd(ok) ==
    /\ ppc = "add"
    /\ IF ok
       THEN ppc' = "commit" /\ UNCHANGED <<git, published>>
       ELSE PublishReturns(PublishFailure("Git command failed"), git)
    /\ UNCHANGED <<site, publishes, pexc, html, head, tree, store, pipevars>>

(* git commit with check=True *)
GitCommit(ok) ==
    /\ ppc = "commit"
    /\ IF ok
       THEN /\ head' = tree
            /\ git' = [git EXCEPT !.commit = @ + 1, !.committed = @ + 1]
            /\ ppc' = "push"
            /\ UNCHANGED published
       ELSE /\ PublishReturns(PublishFailure("Git command failed"),
                              [git EXCEPT !.commit = @ + 1])
            /\ UNCHANGED head
    /\ UNCHANGED <<site, publishes, pexc, html, tree, store, pipevars>>

(* git push origin main: a non-zero return code is tested *)
GitPush(ok) ==
    /\ ppc = "push"
    /\ IF ok
       THEN /\ site' = head
            /\ PublishReturns(PublishSuccess(html.count, "Update site"),
                              [git EXCEPT !.push = @ + 1, !.pushed = @ + 1])
       ELSE /\ PublishReturns(PublishFailure("Git push failed"),
                              [git EXCEPT !.push = @ + 1])
            /\ UNCHANGED site
    /\ UNCHANGED <<publishes, pexc, html, head, tree, store, pipevars>>

----------------------------------------------------------------------------

(* run_pipeline alone, with every answer of its collaborators *)
Next ==
    \/ \E nq \in NumQueriesArgs, rpq \in ResultsPerQueryArgs, mq \in MinQualityArgs :
          RunPipeline(nq, rpq, mq)
    \/ ForQuery
    \/ Return
    \/ \E n \in 0 .. results_per_query : \E hits \in Hits(n) : SearchOk(hits)
    \/ SearchFail
    \/ ForHit
    \/ \E len \in ContentLengths : FetchOk(len)
    \/ FetchFail
    \/ CheckLength
    \/ EvaluateFail
    \/ EvaluateNotObject
    \/ \E story \in Stories, score \in Scores : EvaluateOk(story, score)
    \/ Decide
    \/ StoreOk
    \/ StoreFail

Spec == Init /\ [][Next]_vars

----------------------------------------------------------------------------
(* The table under run_pipeline, store_deployment and get_deployments: runs *)
(* of one query with one hit whose page is long enough and is judged a      *)
(* story, every store call succeeding or failing.                           *)

NextStore ==
    \/ \E mq \in MinQualityArgs : RunPipeline(1, 1, mq)
    \/ ForQuery
    \/ Return
    \/ \E hits \in Hits(1) : SearchOk(hits)
    \/ ForHit
    \/ FetchOk(500)
    \/ CheckLength
    \/ \E score \in {JInt(5), JInt(7)} : EvaluateOk(JBool(TRUE), score)
    \/ Decide
    \/ StoreOk
    \/ StoreFail
    \/ \E u \in DirectUrls, story \in BOOLEAN, q \in DirectScores,
          snippet \in DirectSnippets, ok \in BOOLEAN :
          StoreDeployment(u, story, q, snippet, ok)
    \/ \E mq \in MinQualityArgs, limit \in Limits, ok \in BOOLEAN :
          GetDeployments(mq, limit, ok)

SpecStore == Init /\ [][NextStore]_vars

----------------------------------------------------------------------------
(* select_queries alone, on banks of every size up to MaxBank               *)

InitSelect ==
    /\ bank \in {SEARCH_QUERY_BANK(n) : n \in 0 .. MaxBank}
    /\ store = {}
    /\ clock = 1
    /\ runs = 0
    /\ work = 0
    /\ direct = 0
    /\ pc = "idle"
    /\ exc = "none"
    /\ num_queries = 0
    /\ results_per_query = 0
    /\ min_quality = 0
    /\ queries = <<>>
    /\ qi = 0
    /\ search_results = <<>>
    /\ hi = 0
    /\ url = ""
    /\ content = 0
    /\ is_story = JBool(FALSE)
    /\ quality = JInt(0)
    /\ stats = NewStats
    /\ calls = NoCalls
    /\ result = NoResult
    /\ InitPublish

(* a call select_queries(k): its result, or the exception it raises *)
SelectQueries(k) ==
    /\ Idle
    /\ num_queries' = k
    /\ IF SampleRaises(bank, k)
       THEN /\ exc' = "ValueError"
            /\ queries' = <<>>
            /\ result' = Returned("select", FALSE, 0, 0, <<>>)
       ELSE /\ exc' = "none"
            /\ queries' \in select_queries(bank, k)
            /\ result' = Returned("select", TRUE, 0, 0, <<>>)
    /\ UNCHANGED <<pubvars, bank, store, clock, runs, work, direct, pc, results_per_query,
                   min_quality, qi, search_results, hi, url, content, is_story,
                   quality, stats, calls>>

NextSelect == \E k \in -1 .. (MaxBank + 1) : SelectQueries(k)

SpecSelect == InitSelect /\ [][NextSelect]_vars

----------------------------------------------------------------------------
(* publish_site over a table filled by store_deployment, every git command *)
(* and the table's query succeeding or failing.                            *)

NextPublish ==
    \/ \E u \in Urls, q \in DirectScores, snippet \in DirectSnippets :
          StoreDeployment(u, TRUE, q, snippet, TRUE)
    \/ \E mq \in MinQualityArgs, token \in BOOLEAN, ok \in BOOLEAN :
          PublishSite(mq, token, ok)
    \/ \E ok \in BOOLEAN : GitClone(ok)
    \/ \E ok \in BOOLEAN : WriteIndex(ok)
    \/ \E ok \in BOOLEAN : GitConfig(ok)
    \/ \E ok \in BOOLEAN : GitStatus(ok)
    \/ \E ok \in BOOLEAN : GitAdd(ok)
    \/ \E ok \in BOOLEAN : GitCommit(ok)
    \/ \E ok \in BOOLEAN : GitPush(ok)

SpecPublish == Init /\ [][NextPublish]_vars

----------------------------------------------------------------------------
(* Properties of run_pipeline, checked under Spec                          *)

(* C1: in every state of a run, after each step of the loop as well as at  *)
(* return, stored <= evaluated <= fetched <= searched.                     *)
C1_CounterChain ==
    /\ stats.stored <= stats.evaluated
    /\ stats.evaluated <= stats.fetched
    /\ stats.fetched <= stats.searched

(* a returned report of a run in which every stage counted something and   *)
(* something failed                                                        *)
C1_Witness ==
    /\ pc = "done"
    /\ stats.stored = 1
    /\ stats.searched = 2
    /\ Len(stats.errors) = 1

(* C2: no failure of a stage leaves run_pipeline as an exception; each is  *)
(* one entry of errors; the run returns, and when it does every selected   *)
(* query was searched and every hit of every successful search was tried.  *)
C2_StageFailuresCaught ==
    /\ exc # "TypeError"
    /\ Len(stats.errors) = calls.search_failed + calls.fetch_failed
                             + calls.evaluate_failed + calls.upsert_failed
    /\ pc = "done" =>
          /\ calls.search = Len(queries)
          /\ calls.fetch = stats.searched

(* C3: at the decision, the store branch is entered, and upsert called for *)
(* the url of the hit, exactly when the evaluation is a story whose score  *)
(* is at least min_quality; otherwise nothing is stored, counted or        *)
(* recorded as an error.                                                   *)
C3_Rule == is_story = JBool(TRUE) /\ quality.type = "int" /\ quality.val >= min_quality

C4_ShortContentSkipped ==
    [][/\ (pc = "fetch" /\ pc' = "length") => stats'.fetched = stats.fetched + 1
       /\ (pc = "length" /\ content < 300) =>
            /\ pc' = "hit"
            /\ hi' = hi + 1
            /\ stats' = stats
            /\ store' = store
            /\ calls'.evaluate = calls.evaluate
            /\ calls'.upsert = calls.upsert
       /\ pc' \in {"evaluate", "decide", "store"} => content' >= 300]_vars

(* a returned run with one short page: fetched, not evaluated, no error *)
C4_Witness ==
    /\ pc = "done"
    /\ calls.short = 1
    /\ stats.fetched = 1
    /\ stats.evaluated = 0
    /\ stats.errors = <<>>

(* C5: a step of a run that records an error appends exactly one entry and *)
(* does not increment the counter of the failing stage nor of a later one; *)
(* no step of a run lowers a counter or removes or rewrites an entry.      *)
C5_Unchanged(stage) ==
    /\ stage = "Search" => stats'.searched = stats.searched
    /\ stage \in {"Search", "Fetch"} => stats'.fetched = stats.fetched
    /\ stage \in {"Search", "Fetch", "Evaluation"} => stats'.evaluated = stats.evaluated
    /\ stats'.stored = stats.stored

C5_FailingUnit ==
    [][Running =>
         /\ stats'.searched >= stats.searched
         /\ stats'.fetched >= stats.fetched
         /\ stats'.evaluated >= stats.evaluated
         /\ stats'.stored >= stats.stored
         /\ Len(stats'.errors) >= Len(stats.errors)
         /\ SubSeq(stats'.errors, 1, Len(stats.errors)) = stats.errors
         /\ stats'.errors # stats.errors =>
               /\ Len(stats'.errors) = Len(stats.errors) + 1
               /\ C5_Unchanged(stats'.errors[Len(stats'.errors)].stage)]_vars

(* C7: during a run the table changes only in a successful upsert, which   *)
(* records no error and touches no row of another url; a step that records *)
(* an error (a failed search, fetch, evaluation or upsert) changes no row.  *)
C7_FailuresLeaveStoreUntouched ==
    [][Running =>
         /\ store' # store =>
               /\ pc = "store"
               /\ stats'.stored = stats.stored + 1
               /\ stats'.errors = stats.errors
         /\ \A r \in store : r.url # url => r \in store'
         /\ \A r \in store' : r.url # url => r \in store
         /\ stats'.errors # stats.errors => store' = store]_vars

(* a second run whose only unit failed, the first run's record still there *)
C7_Witness ==
    /\ pc = "done"
    /\ runs = 2
    /\ stats.stored = 0
    /\ Len(stats.errors) = 1
    /\ Cardinality(store) = 1

(* C8: the end-to-end scenario.  One query was selected and its search     *)
(* gave 2 hits; one fetch failed; the other page has 500 characters and    *)
(* the evaluator judged it a story of score 7; min_quality is 5.           *)
C8_Scenario ==
    /\ pc = "done"
    /\ min_quality = 5
    /\ Len(queries) = 1
    /\ calls.search = 1
    /\ Len(search_results) = 2
    /\ calls.fetch = 2
    /\ calls.fetch_failed = 1
    /\ content = 500
    /\ calls.evaluate = 1
    /\ is_story = JBool(TRUE)
    /\ quality = JInt(7)

C8_Report ==
    /\ stats.searched = 2
    /\ stats.fetched = 1
    /\ stats.evaluated = 1
    /\ stats.stored = 1
    /\ Len(stats.errors) = 1
    /\ stats.errors[1].stage = "Fetch"

C11_ZeroScoreNotStory ==
    /\ pc \in {"decide", "store"} => (quality = JInt(0) => ~Truthy(is_story))
    /\ \A r \in store : r.quality_score = 0 => ~r.is_deployment_story

(* C13: a run does not deduplicate urls.  Every hit of every search is    *)
(* fetched, whether or not its url was met or stored before; every fetched *)
(* page that is long enough is evaluated; every successful upsert counts   *)
(* in stored, also when the row of the url exists already; and the table   *)
(* keeps one row per url, so stored can exceed the number of rows written. *)
C13_NoDedupAcrossQueries ==
    [][Running =>
         /\ (pc = "hit" /\ hi <= Len(search_results)) =>
               /\ pc' = "fetch"
               /\ url' = search_results[hi]
         /\ pc = "fetch" => calls'.fetch = calls.fetch + 1
         /\ (pc = "length" /\ content >= 300) => pc' = "evaluate"
         /\ pc = "evaluate" => calls'.evaluate = calls.evaluate + 1
         /\ (pc = "store" /\ calls'.upsert_failed = calls.upsert_failed) =>
               /\ stats'.stored = stats.stored + 1
               /\ \E r \in store' : r.url = url /\ r.touched_at = clock
               /\ (\E r \in store : r.url = url) =>
                     Cardinality(store') = Cardinality(store)
         /\ \A r, t \in store' : r.url = t.url => r = t]_vars

(* one run of two queries, each search returning one hit, both hits the    *)
(* same url: fetched, evaluated and stored twice, one row                  *)
C13_Witness ==
    /\ pc = "done"
    /\ runs = 1
    /\ Len(queries) = 2
    /\ calls.search = 2
    /\ calls.search_failed = 0
    /\ Len(search_results) = 1
    /\ stats.searched = 2
    /\ stats.fetched = 2
    /\ stats.evaluated = 2
    /\ stats.stored = 2
    /\ Cardinality(store) = 1

(* number of entries of errors recorded by a stage *)
Errors(stage) == Cardinality({i \in DOMAIN stats.errors : stats.errors[i].stage = stage})

(* C14: at return every hit counted in searched ended in one outcome:      *)
(* searched = fetched + fetch errors, fetched = evaluated + short skips +  *)
(* evaluation errors, evaluated = stored + storage errors + rejected hits, *)
(* len(errors) is the sum of the errors of the four stages and at most     *)
(* queries_executed + searched, and queries_executed = len(queries_used)   *)
(* = min(num_queries, |bank|).                                             *)
C14_Accounting ==
    pc = "done" =>
        /\ stats.searched = stats.fetched + Errors("Fetch")
        /\ stats.fetched = stats.evaluated + calls.short + Errors("Evaluation")
        /\ stats.evaluated = stats.stored + Errors("Storage") + calls.rejected
        /\ Len(stats.errors) = Errors("Search") + Errors("Fetch")
                                 + Errors("Evaluation") + Errors("Storage")
        /\ Len(stats.errors) <= stats.queries_executed + stats.searched
        /\ stats.queries_executed = Len(stats.queries_used)
        /\ stats.queries_executed = Min(num_queries, Len(bank))

----------------------------------------------------------------------------
(* Properties of the table, checked under SpecStore                        *)

RowsOf(rows, u) == {r \in rows : r.url = u}

(* C6: the table never holds two rows of one url; a successful upsert of   *)
(* run_pipeline leaves the row of its url with the values just written,    *)
(* and when the url was stored before, the number of rows does not grow.   *)
C6_OneRowPerUrl ==
    [][/\ \A u \in DirectUrls : Cardinality(RowsOf(store', u)) <= 1
       /\ Cardinality(store') <= Cardinality(store) + 1
       /\ (pc = "store" /\ stats'.stored = stats.stored + 1) =>
            /\ \E r \in store' :
                  /\ r.url = url
                  /\ r.is_deployment_story
                  /\ r.quality_score = quality.val
                  /\ r.content_snippet = (IF content <= 2000 THEN content ELSE 2000)
                  /\ r.touched_at = clock
            /\ RowsOf(store, url) # {} => Cardinality(store') = Cardinality(store)]_vars

(* a second run stored the url the first run had stored: one row, written  *)
(* again                                                                   *)
C6_Witness ==
    /\ pc = "done"
    /\ runs = 2
    /\ stats.stored = 1
    /\ Cardinality(store) = 1
    /\ \E r \in store : r.touched_at > r.created_at

Listed == {result.deployments[i] : i \in DOMAIN result.deployments}

C10_Filtered ==
    LET d == result.deployments
        match == {r \in store : r.is_deployment_story = TRUE
                                  /\ r.quality_score >= result.min_quality}
    IN  /\ Listed \subseteq match
        /\ Len(d) = Cardinality(Listed)
        /\ Len(d) = IF result.limit <= Cardinality(match)
                     THEN result.limit ELSE Cardinality(match)

(* C10 as claimed: a successful get_deployments lists the matching rows,   *)
(* the most recently inserted or updated first, capped at limit.           *)
C10_AsClaimed ==
    (result.op = "get" /\ result.success) =>
        LET d == result.deployments
        IN  /\ C10_Filtered
            /\ \A i, j \in DOMAIN d : i < j => d[i].touched_at > d[j].touched_at
            /\ \A r \in store \ Listed : \A i \in DOMAIN d :
                  (r.is_deployment_story /\ r.quality_score >= result.min_quality)
                      => d[i].touched_at > r.touched_at

(* C10 amended: a successful get_deployments lists the matching rows, the  *)
(* most recently created (first inserted) first, capped at limit; an       *)
(* update by upsert does not move a row.                                   *)
C10_NewestCreatedFirst ==
    (result.op = "get" /\ result.success) =>
        LET d == result.deployments
        IN  /\ C10_Filtered
            /\ \A i, j \in DOMAIN d : i < j => d[i].created_at > d[j].created_at
            /\ \A r \in store \ Listed : \A i \in DOMAIN d :
                  (r.is_deployment_story /\ r.quality_score >= result.min_quality)
                      => d[i].created_at > r.created_at

(* a listing of two rows in which the second was updated after the first   *)
(* was written                                                             *)
C10_Witness ==
    /\ result.op = "get"
    /\ result.success
    /\ Len(result.deployments) = 2
    /\ result.deployments[2].touched_at > result.deployments[1].touched_at

----------------------------------------------------------------------------
(* Properties of select_queries, checked under SpecSelect                  *)

C9_Selection ==
    /\ exc = "none"
    /\ Len(queries) = Min(num_queries, Len(bank))
    /\ \A i \in DOMAIN queries : \E j \in DOMAIN bank : queries[i] = bank[j]
    /\ \A i, j \in DOMAIN queries : i # j => queries[i] # queries[j]

(* C9 as claimed: for every k, select_queries(k) returns min(k, |bank|)     *)
(* pairwise distinct entries of the bank and does not raise.                *)
C9_AsClaimed == result.op = "select" => C9_Selection

(* C9 amended: for every k >= 0, select_queries(k) returns min(k, |bank|)   *)
(* pairwise distinct entries of the bank and does not raise.                *)
C9_SelectsDistinct == (result.op = "select" /\ num_queries >= 0) => C9_Selection

(* k above the size of a bank of 5, and k = 3 on a bank of 5 *)
C9_Witness ==
    /\ result.op = "select"
    /\ Len(bank) = 5
    /\ \/ num_queries = 6 /\ Len(queries) = 5
       \/ num_queries = 3 /\ Len(queries) = 3

----------------------------------------------------------------------------
(* Properties of publish_site, checked under SpecPublish                   *)

(* no exception leaves publish_site *)
C12_NoEscape == ppc # "raised" /\ pexc = "none"

(* no git command is retried; an invocation that ended has returned one    *)
(* result, a failure when clone, commit or push failed; a push comes after *)
(* a successful clone and a detected change; without a detected change the *)
(* result is a success and nothing was committed or pushed                 *)
C12_GitDiscipline ==
    /\ git.clone <= 1 /\ git.status <= 1 /\ git.commit <= 1 /\ git.push <= 1
    /\ git.returned <= 1
    /\ ppc = "returned" <=> git.returned = 1
    /\ ppc = "returned" => published.success \in BOOLEAN
    /\ (git.cloned < git.clone \/ git.committed < git.commit
          \/ git.pushed < git.push) => (ppc = "returned" /\ ~published.success)
    /\ git.push = 1 => (git.cloned = 1 /\ git.changed = 1 /\ git.committed = 1)
    /\ (git.status = 1 /\ git.changed = 0) =>
          /\ ppc = "returned"
          /\ published.success
          /\ published.commit_message = "No changes"
          /\ git.commit = 0
          /\ git.push = 0
    /\ (ppc = "returned" /\ published.success) =>
          (git.pushed = 1 \/ (git.status = 1 /\ git.changed = 0))

(* C12: every invocation of publish_site ends with one returned result     *)
(* carrying a success flag, also when site generation, clone, commit or    *)
(* push fails: no exception escapes and nothing is retried; a push is      *)
(* attempted at most once and only after a successful clone and a detected *)
(* change; with no change detected the result is a success with no commit  *)
(* and no push.                                                            *)
C12_PublishReturnsOneResult == C12_NoEscape /\ C12_GitDiscipline

====
